---- MODULE Spec2Model ----
(***************************************************************************)
(* A model of app.py: the candidate extractor                              *)
(* parse_analysis_to_candidates and the job source adapter fetch_real_jobs.*)
(*                                                                         *)
(* A Python str is modelled as a sequence of one-character strings, so     *)
(* that strip, lower, split and the substring tests are computed as the    *)
(* code computes them.  The alphabet holds the ASCII letters used by the   *)
(* inputs, the blank, the tab, the line feed and the punctuation the code  *)
(* looks at.                                                               *)
(***************************************************************************)
EXTENDS Integers, Sequences, FiniteSets, TLC

\* ---------------------------------------------------------------------
\* Python string primitives
\* ---------------------------------------------------------------------

UpperLetters ==
    <<"A","B","C","D","E","F","G","H","I","J","K","L","M","N","O","P","Q","R",
      "S","T","U","V","W","X","Y","Z">>

LowerLetters ==
    <<"a","b","c","d","e","f","g","h","i","j","k","l","m","n","o","p","q","r",
      "s","t","u","v","w","x","y","z">>

\* str.lower on one character.
LowerChar(c) ==
    IF \E k \in 1..26 : UpperLetters[k] = c
    THEN LowerLetters[CHOOSE k \in 1..26 : UpperLetters[k] = c]
    ELSE c

\* str.lower
Lower(s) == [k \in 1..Len(s) |-> LowerChar(s[k])]

\* The characters str.strip() and str.split() treat as whitespace.
IsSpace(c) == c \in {" ", "\t", "\n"}

\* The line boundary of str.splitlines() present in the alphabet.
IsLineBreak(c) == c = "\n"

\* A variant of IsDelimiter that leaves the comma out of the class.
IsDelimiterNoComma(c) == c \in {"|", ";", "/"}

\* The character class of the pattern [,\|;/]+ .
IsDelimiter(c) == c \in {",", "|", ";", "/"}

\* The first index >= k of s holding a whitespace character (Len(s)+1: none).
RECURSIVE NextSpace(_, _)
NextSpace(s, k) ==
    IF k > Len(s) \/ IsSpace(s[k]) THEN k ELSE NextSpace(s, k + 1)

\* The first index >= k of s holding no whitespace character.
RECURSIVE SkipSpace(_, _)
SkipSpace(s, k) ==
    IF k > Len(s) \/ ~IsSpace(s[k]) THEN k ELSE SkipSpace(s, k + 1)

\* The last index <= k of s holding no whitespace character (0: none).
RECURSIVE LastNonSpace(_, _)
LastNonSpace(s, k) ==
    IF k = 0 \/ ~IsSpace(s[k]) THEN k ELSE LastNonSpace(s, k - 1)

\* str.strip()
Strip(s) == SubSeq(s, SkipSpace(s, 1), LastNonSpace(s, Len(s)))

\* str.split(): the maximal runs of non-whitespace characters, in order.
RECURSIVE WordsFrom(_, _)
WordsFrom(s, k) ==
    LET b == SkipSpace(s, k)
        e == NextSpace(s, b)
    IN  IF b > Len(s) THEN <<>>
        ELSE <<SubSeq(s, b, e - 1)>> \o WordsFrom(s, e)

Words(s) == WordsFrom(s, 1)

\* " ".join(ws)
RECURSIVE JoinSpace(_)
JoinSpace(ws) ==
    IF ws = <<>> THEN <<>>
    ELSE IF Len(ws) = 1 THEN ws[1]
    ELSE ws[1] \o <<" ">> \o JoinSpace(Tail(ws))

\* str.splitlines(): the pieces between line breaks; a final line break
\* opens no further (empty) line.
RECURSIVE NextLineBreak(_, _)
NextLineBreak(s, k) ==
    IF k > Len(s) \/ IsLineBreak(s[k]) THEN k ELSE NextLineBreak(s, k + 1)

RECURSIVE SplitLinesFrom(_, _)
SplitLinesFrom(s, k) ==
    LET e == NextLineBreak(s, k)
    IN  IF k > Len(s) THEN <<>>
        ELSE <<SubSeq(s, k, e - 1)>> \o SplitLinesFrom(s, e + 1)

SplitLines(s) == SplitLinesFrom(s, 1)

\* re.split(r'[,\|;/]+', s): the pieces between maximal runs of delimiters
\* (an empty first or last piece when s starts or ends with a delimiter).
RECURSIVE NextDelimiter(_, _)
NextDelimiter(s, k) ==
    IF k > Len(s) \/ IsDelimiter(s[k]) THEN k ELSE NextDelimiter(s, k + 1)

RECURSIVE SkipDelimiters(_, _)
SkipDelimiters(s, k) ==
    IF k > Len(s) \/ ~IsDelimiter(s[k]) THEN k ELSE SkipDelimiters(s, k + 1)

RECURSIVE ReSplitFrom(_, _)
ReSplitFrom(s, k) ==
    LET e == NextDelimiter(s, k)
    IN  IF e > Len(s) THEN <<SubSeq(s, k, Len(s))>>
        ELSE <<SubSeq(s, k, e - 1)>> \o ReSplitFrom(s, SkipDelimiters(s, e))

ReSplit(s) == ReSplitFrom(s, 1)

\* sub in s
Contains(s, sub) ==
    \E k \in 0..(Len(s) - Len(sub)) : SubSeq(s, k + 1, k + Len(sub)) = sub

\* s.startswith(sub)
StartsWith(s, sub) == Len(s) >= Len(sub) /\ SubSeq(s, 1, Len(sub)) = sub

\* The index of the first ":" of s (0: none).
RECURSIVE ColonFrom(_, _)
ColonFrom(s, k) ==
    IF k > Len(s) THEN 0 ELSE IF s[k] = ":" THEN k ELSE ColonFrom(s, k + 1)

\* Whether line.split(":", 1) has more than one part.
HasColon(s) == ColonFrom(s, 1) > 0

\* parts[1] of line.split(":", 1)
AfterColon(s) == SubSeq(s, ColonFrom(s, 1) + 1, Len(s))

\* [t.strip() for t in re.split(r'[,\|;/]+', s) if t.strip()]
Fragments(s) ==
    LET parts == ReSplit(s)
        stripped == [k \in 1..Len(parts) |-> Strip(parts[k])]
    IN  SelectSeq(stripped, LAMBDA t : t # <<>>)

\* ---------------------------------------------------------------------
\* Literals of parse_analysis_to_candidates
\* ---------------------------------------------------------------------

TitlesPhrase ==
    <<"s","u","g","g","e","s","t","e","d"," ","j","o","b"," ","t","i","t","l",
      "e","s" >>

ListSkillsPhrase ==
    <<"l","i","s","t"," ","o","f"," ","t","e","c","h","n","i","c","a","l"," ",
      "s","k","i","l","l","s" >>

SkillsPrefix == <<"s", "k", "i", "l", "l", "s", ":">>

TechSkillsPhrase ==
    <<"t","e","c","h","n","i","c","a","l"," ","s","k","i","l","l","s" >>

\* ---------------------------------------------------------------------
\* parse_analysis_to_candidates
\* ---------------------------------------------------------------------

\* The most words a line following the titles heading may have (line 92).
TitleLineWords == 8

\* The following lines are read while fewer candidates are held (line 90).
TitleCap == 10

\* The number of skills taken from the heading line (line 107).
SkillTake == 6

\* The most words a comma-free line following the skills heading may have
\* (line 112).
SkillLineWords == 10

\* The following lines are read while fewer candidates are held (line 110).
SkillCap == 12

\* The number of words of the fallback query (line 122).
FallbackWords == 6

\* The bounds on a candidate's length (line 129).
MinLength == 2

MaxLength == 80

\* lines = [l.strip() for l in analysis_text.splitlines() if l.strip()]
NonEmptyLines(text) ==
    LET raw == SplitLines(text)
        stripped == [k \in 1..Len(raw) |-> Strip(raw[k])]
    IN  SelectSeq(stripped, LAMBDA l : l # <<>>)

\* The condition of line 83.
IsTitlesHeading(line) ==
    \/ Contains(Lower(line), TitlesPhrase)
    \/ StartsWith(Lower(line), TitlesPhrase)

\* The condition of line 103.
IsSkillsHeading(line) ==
    \/ Contains(Lower(line), ListSkillsPhrase)
    \/ StartsWith(Lower(line), SkillsPrefix)
    \/ Contains(Lower(line), TechSkillsPhrase)

\* The index at which the loop of line 81 reaches its break (0: never).
FirstTitlesHeading(ls) ==
    IF \E k \in 1..Len(ls) : IsTitlesHeading(ls[k])
    THEN CHOOSE k \in 1..Len(ls) :
            /\ IsTitlesHeading(ls[k])
            /\ \A m \in 1..(k - 1) : ~IsTitlesHeading(ls[m])
    ELSE 0

\* The index at which the loop of line 101 reaches its break (0: never).
FirstSkillsHeading(ls) ==
    IF \E k \in 1..Len(ls) : IsSkillsHeading(ls[k])
    THEN CHOOSE k \in 1..Len(ls) :
            /\ IsSkillsHeading(ls[k])
            /\ \A m \in 1..(k - 1) : ~IsSkillsHeading(ls[m])
    ELSE 0

\* The while loop of lines 90-97.
RECURSIVE TitleFollow(_, _, _)
TitleFollow(ls, j, cands) ==
    IF j <= Len(ls) /\ Len(cands) < TitleCap
                    /\ Len(Words(ls[j])) <= TitleLineWords
    THEN TitleFollow(ls, j + 1, cands \o Fragments(ls[j]))
    ELSE cands

\* The loop of lines 81-98: the candidates after it.
TitleScan(ls, cands) ==
    LET i == FirstTitlesHeading(ls)
    IN  IF i = 0 THEN cands
        ELSE TitleFollow(ls, i + 1,
                 IF HasColon(ls[i])
                 THEN cands \o Fragments(AfterColon(ls[i]))
                 ELSE cands)

\* skills[:6]
TakeSkills(skills) ==
    SubSeq(skills, 1, IF Len(skills) < SkillTake THEN Len(skills) ELSE SkillTake)

\* The while loop of lines 110-117.
RECURSIVE SkillFollow(_, _, _)
SkillFollow(ls, j, cands) ==
    IF j <= Len(ls) /\ Len(cands) < SkillCap
                    /\ (\/ \E k \in 1..Len(ls[j]) : ls[j][k] = ","
                        \/ Len(Words(ls[j])) <= SkillLineWords)
    THEN SkillFollow(ls, j + 1, cands \o Fragments(ls[j]))
    ELSE cands

\* The loop of lines 101-118: the candidates after it.
SkillScan(ls, cands) ==
    LET i == FirstSkillsHeading(ls)
        right == IF HasColon(ls[i]) THEN AfterColon(ls[i]) ELSE <<>>
    IN  IF i = 0 THEN cands
        ELSE SkillFollow(ls, i + 1, cands \o TakeSkills(Fragments(right)))

\* A variant of FirstWords that takes five words.
FirstWordsFive(text) ==
    LET ws == Words(text)
        n == IF Len(ws) < 5 THEN Len(ws) ELSE 5
    IN  Strip(JoinSpace(SubSeq(ws, 1, n)))

\* " ".join(analysis_text.split()[:6]).strip()
FirstWords(text) ==
    LET ws == Words(text)
        n == IF Len(ws) < FallbackWords THEN Len(ws) ELSE FallbackWords
    IN  Strip(JoinSpace(SubSeq(ws, 1, n)))

\* Lines 121-124.
FallbackCandidates(text, cands) ==
    IF cands = <<>>
    THEN IF FirstWords(text) # <<>> THEN <<FirstWords(text)>> ELSE cands
    ELSE cands

\* A variant of ReasonableLength without the lower bound.
ReasonableLengthNoMinimum(c) == Len(c) <= MaxLength

\* 2 <= len(c) <= 80
ReasonableLength(c) == MinLength <= Len(c) /\ Len(c) <= MaxLength

\* A variant of AlreadyCleaned that compares without lower-casing.
AlreadyCleanedExact(c, kept) == \E k \in 1..Len(kept) : kept[k] = c

\* c.lower() in [x.lower() for x in cleaned]
AlreadyCleaned(c, kept) ==
    \E k \in 1..Len(kept) : Lower(kept[k]) = Lower(c)

\* The loop of lines 128-130, from index k on.
RECURSIVE CleanFrom(_, _, _)
CleanFrom(cands, k, kept) ==
    IF k > Len(cands) THEN kept
    ELSE CleanFrom(cands, k + 1,
             IF ReasonableLength(cands[k]) /\ ~AlreadyCleaned(cands[k], kept)
             THEN Append(kept, cands[k])
             ELSE kept)

\* ---------------------------------------------------------------------
\* The analysis texts given to parse_analysis_to_candidates
\* ---------------------------------------------------------------------

BackendDeveloper ==
    <<"B","a","c","k","e","n","d"," ","D","e","v","e","l","o","p","e","r" >>

DataEngineer ==
    <<"D","a","t","a"," ","E","n","g","i","n","e","e","r" >>

LineTitles ==
    <<"S","u","g","g","e","s","t","e","d"," ","j","o","b"," ","t","i","t","l",
      "e","s",":"," ","B","a","c","k","e","n","d"," ","D","e","v","e","l","o",
      "p","e","r",","," ","D","a","t","a"," ","E","n","g","i","n","e","e","r" >>

LineHeading ==
    <<"S","U","G","G","E","S","T","E","D"," ","J","O","B"," ","T","I","T","L",
      "E","S" >>

LineMany ==
    <<"s","u","g","g","e","s","t","e","d"," ","j","o","b"," ","t","i","t","l",
      "e","s",":"," ","a","a",",","a","b",",","a","c",",","a","d",",","a","e",
      ",","a","f",",","a","g",",","a","h",",","a","i",",","a","j",",","a","k",
      ",","a","l",",","a","m" >>

LineSkills ==
    <<"L","i","s","t"," ","o","f"," ","t","e","c","h","n","i","c","a","l"," ",
      "s","k","i","l","l","s",":"," ","P","y","t","h","o","n",","," ","S","Q",
      "L"," ","|"," ","p","y","t","h","o","n",";"," ","G","o","/","x" >>

LineSkillsCap ==
    <<"S","k","i","l","l","s",":"," ","J","a","v","a",","," ","S","Q","L",",",
      " ","G","o",","," ","R","u","s","t",","," ","S","c","a","l","a",","," ",
      "P","e","r","l",","," ","R","u","b","y" >>

LineShort ==
    <<" "," ","P","y","t","h","o","n",","," ","D","j","a","n","g","o"," " >>

LineProse ==
    <<"S","e","n","i","o","r"," "," ","e","n","g","i","n","e","e","r"," ","w",
      "i","t","h"," ","t","e","n"," ","y","e","a","r","s"," ","o","f"," ","e",
      "x","p","e","r","i","e","n","c","e"," ","i","n"," ","d","a","t","a"," ",
      "a","n","d"," ","m","l" >>

LineNine ==
    <<"W","o","r","k","e","d"," ","o","n"," ","s","e","a","r","c","h"," ","a",
      "n","d"," ","d","a","t","a"," ","s","y","s","t","e","m","s"," ","f","o",
      "r"," ","n","i","n","e"," ","y","e","a","r","s" >>

LineOne == <<"Q">>

LineLong == [k \in 1..81 |-> "x"]

\* The lines an analysis text is made of.
LinePool ==
    { LineTitles, LineHeading, LineMany, LineSkills, LineSkillsCap,
      LineShort, LineProse, LineNine, LineLong, LineOne }

\* The most lines of an analysis text.
MaxLines == 3

\* "\n".join(ls)
RECURSIVE JoinLines(_)
JoinLines(ls) ==
    IF ls = <<>> THEN <<>>
    ELSE IF Len(ls) = 1 THEN ls[1]
    ELSE ls[1] \o <<"\n">> \o JoinLines(Tail(ls))

AnalysisTexts ==
    { JoinLines(ls) : ls \in UNION { [1..n -> LinePool] : n \in 0..MaxLines } }

\* ---------------------------------------------------------------------
\* fetch_real_jobs
\* ---------------------------------------------------------------------

\* A key a dict does not hold, and the None that dict.get then returns.
Absent == "<absent>"

\* Python truthiness of a string or None.
Truthy(v) == v # Absent /\ v # ""

\* a or b
OrElse(a, b) == IF Truthy(a) THEN a ELSE b

\* dict.get(key, default)
GetOr(v, default) == IF v = Absent THEN default ELSE v

\* Line 153.
Locations ==
    <<"Chennai", "Bangalore", "Hyderabad", "Coimbatore", "Madurai",
      "Tamil Nadu", "India", "">>

\* Lines 156-161.
PriorityRoles ==
    <<"Software Development & Engineering", "Engineering Operations",
      "Machine Learning", "Data Analytics & Business Intelligence">>

\* The literal list of line 164.
FallbackTitles ==
    <<"Data Engineer", "Software Engineer", "Developer", "Backend Developer",
      "Data Analyst">>

\* A variant of Queries that puts the priority roles first.
QueriesPriorityFirst(cands) ==
    PriorityRoles \o SelectSeq(cands, LAMBDA q : q # "") \o FallbackTitles

\* Line 164.
Queries(cands) ==
    SelectSeq(cands, LAMBDA q : q # "") \o PriorityRoles \o FallbackTitles

\* The largest page size asked for (line 150).
PageCap == 50

\* per_page = min(50, results)
PerPage(n) == IF n < PageCap THEN n ELSE PageCap

\* The params of lines 174-180 that vary from request to request.
RequestFor(q, loc, n) == [what |-> q, where |-> loc, results_per_page |-> PerPage(n)]

\* A variant of Full that stops one posting late.
FullOffByOne(coll, n) == Len(coll) > n

\* The tests of lines 167 and 170.
Full(coll, n) == Len(coll) >= n

\* A variant of IsAuthFailure that knows 401 only.
IsAuthFailure401(status) == status = 401

\* resp.status_code in (401, 403)
IsAuthFailure(status) == status \in {401, 403}

\* st.error of line 139 and of line 191.
MissingKeysError == "ADZUNA_APP_ID/ADZUNA_APP_KEY missing"

AuthError == "Adzuna authentication error"

\* The length a description is cut to (line 209).
DescriptionLimit == 300

\* (job.get("description") or "")[:300].replace("\n", " ").strip()
Snippet(desc) ==
    LET cut == SubSeq(desc, 1, IF Len(desc) < DescriptionLimit
                               THEN Len(desc) ELSE DescriptionLimit)
    IN  Strip([k \in 1..Len(cut) |-> IF cut[k] = "\n" THEN " " ELSE cut[k]])

\* A variant of JobKey that ignores the id.
JobKeyByTitle(job) == GetOr(job.title, "") \o "|" \o GetOr(job.company, "")

\* Line 201.
JobKey(job) ==
    OrElse(job.id, GetOr(job.title, "") \o "|" \o GetOr(job.company, ""))

\* The dict of lines 205-211.
Posting(job) ==
    [ title |-> job.title,
      company |-> GetOr(job.company, ""),
      location |-> GetOr(job.location, ""),
      description |-> Snippet(job.description),
      redirect_url |-> OrElse(job.redirect_url, OrElse(job.url, "")) ]

\* The loop of lines 200-213 from data[k] on: the collected postings, the
\* seen keys and the jobs the postings were made from.
RECURSIVE CollectFrom(_, _, _, _, _, _)
CollectFrom(data, k, coll, keys, from, n) ==
    IF k > Len(data) THEN <<coll, keys, from>>
    ELSE IF JobKey(data[k]) \in keys
         THEN CollectFrom(data, k + 1, coll, keys, from, n)
         ELSE IF Len(Append(coll, Posting(data[k]))) >= n
              THEN <<Append(coll, Posting(data[k])),
                     keys \cup {JobKey(data[k])}, Append(from, data[k])>>
              ELSE CollectFrom(data, k + 1, Append(coll, Posting(data[k])),
                               keys \cup {JobKey(data[k])},
                               Append(from, data[k]), n)

\* The location index of the next iteration of the loop of line 169.
NextLocation(li) == IF li < Len(Locations) THEN li + 1 ELSE 1

\* The query index of the next iteration: the loop of line 166 moves on when
\* the loop of line 169 is exhausted.
NextQuery(qi, li) == IF li < Len(Locations) THEN qi ELSE qi + 1

\* collected[:results]
Truncate(coll, n) == SubSeq(coll, 1, IF Len(coll) < n THEN Len(coll) ELSE n)

\* ---------------------------------------------------------------------
\* The inputs of fetch_real_jobs and the responses of the job search
\* ---------------------------------------------------------------------

JobBackend ==
    [ id |-> "4101", title |-> "Backend Developer", company |-> "Acme",
      location |-> "Chennai", description |-> <<"A", "P", "I", "\n", "s", " ">>,
      redirect_url |-> "https://jobs/4101", url |-> Absent ]

\* The same listing under another title.
JobBackendSenior ==
    [ id |-> "4101", title |-> "Senior Backend Developer", company |-> "Acme",
      location |-> "Bangalore", description |-> <<>>,
      redirect_url |-> Absent, url |-> "https://alt/4101" ]

\* A listing without an id, with a description longer than the limit.
JobData ==
    [ id |-> Absent, title |-> "Data Engineer", company |-> "Initech",
      location |-> Absent,
      description |-> [k \in 1..301 |-> IF k = 300 THEN "\n" ELSE "d"],
      redirect_url |-> Absent, url |-> Absent ]

JobPool == {JobBackend, JobBackendSenior, JobData}

\* The most postings in one response.
MaxData == 2

\* The largest number of results asked for.
MaxResults == 2

\* The results arrays a response may hold.
DataLists == UNION { [1..n -> JobPool] : n \in 0..MaxData }

\* No response yet.
NoResponse == [kind |-> "none", status |-> 0, parsable |-> FALSE, results |-> <<>>]

\* requests.get raised.
Raised == [kind |-> "raised", status |-> 0, parsable |-> FALSE, results |-> <<>>]

\* The responses requests.get may return: a status other than 200, a 200
\* whose body resp.json() cannot read, a 200 with a results array.
HttpResponses ==
    { [kind |-> "http", status |-> s, parsable |-> FALSE, results |-> <<>>] :
        s \in {401, 403, 500, 200} }
    \cup
    { [kind |-> "http", status |-> 200, parsable |-> TRUE, results |-> d] :
        d \in DataLists }

\* The candidate lists given to fetch_real_jobs.
CandidateLists == { <<>>, <<"", "Python", "Backend Developer">> }

\* ---------------------------------------------------------------------
\* State
\* ---------------------------------------------------------------------

VARIABLES
    pc,              \* the place in the function being run
    analysis_text,   \* parse_analysis_to_candidates: the argument
    lines,           \* the stripped non-empty lines
    candidates,      \* the raw candidates
    cleaned,         \* the list returned
    credentials,     \* whether ADZUNA_APP_ID and ADZUNA_APP_KEY are set
    job_candidates,  \* fetch_real_jobs: the argument candidates
    results,         \* the argument results
    queries,         \* the queries to attempt
    qi,              \* the index in queries of q
    li,              \* the index in locations of loc
    resp,            \* the outcome of the latest requests.get
    collected,       \* the postings collected
    seen,            \* the keys seen
    accepted,        \* history: the job each collected posting was made from
    issued,          \* history: the requests made, in order
    slept,           \* history: time.sleep ran since the latest request
    errors,          \* the st.error messages shown
    returned         \* the list returned by fetch_real_jobs

parseVars == <<analysis_text, lines, candidates, cleaned>>

fetchVars ==
    <<credentials, job_candidates, results, queries, qi, li, resp, collected,
      seen, accepted, issued, slept, errors, returned>>

vars == <<pc, parseVars, fetchVars>>

\* The locals of fetch_real_jobs before it runs.
FetchIdle ==
    /\ queries = <<>>
    /\ qi = 1
    /\ li = 1
    /\ resp = NoResponse
    /\ collected = <<>>
    /\ seen = {}
    /\ accepted = <<>>
    /\ issued = <<>>
    /\ slept = FALSE
    /\ errors = <<>>
    /\ returned = <<>>

\* The locals of parse_analysis_to_candidates before it runs.
ParseIdle ==
    /\ lines = <<>>
    /\ candidates = <<>>
    /\ cleaned = <<>>

\* ---------------------------------------------------------------------
\* parse_analysis_to_candidates, step by step
\* ---------------------------------------------------------------------

ParseInit ==
    /\ pc = "split"
    /\ analysis_text \in AnalysisTexts
    /\ ParseIdle
    /\ credentials = TRUE
    /\ job_candidates = <<>>
    /\ results = 1
    /\ FetchIdle

\* Line 78.
SplitInput ==
    /\ pc = "split"
    /\ lines' = NonEmptyLines(analysis_text)
    /\ pc' = "titles"
    /\ UNCHANGED <<analysis_text, candidates, cleaned, fetchVars>>

\* Lines 81-98.
ScanTitles ==
    /\ pc = "titles"
    /\ candidates' = TitleScan(lines, candidates)
    /\ pc' = "skills"
    /\ UNCHANGED <<analysis_text, lines, cleaned, fetchVars>>

\* Lines 101-118.
ScanSkills ==
    /\ pc = "skills"
    /\ candidates' = SkillScan(lines, candidates)
    /\ pc' = "fallback"
    /\ UNCHANGED <<analysis_text, lines, cleaned, fetchVars>>

\* Lines 121-124.
Fallback ==
    /\ pc = "fallback"
    /\ candidates' = FallbackCandidates(analysis_text, candidates)
    /\ pc' = "cleanup"
    /\ UNCHANGED <<analysis_text, lines, cleaned, fetchVars>>

\* Lines 127-131: the cleanup loop and the return.
Cleanup ==
    /\ pc = "cleanup"
    /\ cleaned' = CleanFrom(candidates, 1, <<>>)
    /\ pc' = "parsed"
    /\ UNCHANGED <<analysis_text, lines, candidates, fetchVars>>

ParseNext == SplitInput \/ ScanTitles \/ ScanSkills \/ Fallback \/ Cleanup

ParseSpec == ParseInit /\ [][ParseNext]_vars

\* ---------------------------------------------------------------------
\* fetch_real_jobs, step by step
\* ---------------------------------------------------------------------

FetchInit ==
    /\ pc = "enter"
    /\ analysis_text = <<>>
    /\ ParseIdle
    /\ credentials \in BOOLEAN
    /\ job_candidates \in CandidateLists
    /\ results \in 1..MaxResults
    /\ FetchIdle

\* Lines 138-140.
MissingKeys ==
    /\ pc = "enter"
    /\ ~credentials
    /\ errors' = Append(errors, MissingKeysError)
    /\ returned' = <<>>
    /\ pc' = "done"
    /\ UNCHANGED <<parseVars, credentials, job_candidates, results, queries,
                   qi, li, resp, collected, seen, accepted, issued, slept>>

\* Lines 142-164.
Begin ==
    /\ pc = "enter"
    /\ credentials
    /\ queries' = Queries(job_candidates)
    /\ qi' = 1
    /\ li' = 1
    /\ collected' = <<>>
    /\ seen' = {}
    /\ pc' = "loop"
    /\ UNCHANGED <<parseVars, credentials, job_candidates, results, resp,
                   accepted, issued, slept, errors, returned>>

\* Lines 166-183: the loops reach (q, loc) with fewer than results postings
\* collected, and requests.get is called; it returns a response or raises.
Request ==
    /\ pc = "loop"
    /\ qi <= Len(queries)
    /\ ~Full(collected, results)
    /\ issued' = Append(issued, RequestFor(queries[qi], Locations[li], results))
    /\ slept' = FALSE
    /\ resp' \in HttpResponses \cup {Raised}
    /\ pc' = "respond"
    /\ UNCHANGED <<parseVars, credentials, job_candidates, results, queries,
                   qi, li, collected, seen, accepted, errors, returned>>

\* A variant of TransportFailure that tries the same (q, loc) again.
TransportFailureRetry ==
    /\ pc = "respond"
    /\ resp.kind = "raised"
    /\ pc' = "loop"
    /\ UNCHANGED <<parseVars, credentials, job_candidates, results, queries,
                   qi, li, resp, collected, seen, accepted, issued, slept,
                   errors, returned>>

\* Lines 184-186: the except clause.
TransportFailure ==
    /\ pc = "respond"
    /\ resp.kind = "raised"
    /\ qi' = NextQuery(qi, li)
    /\ li' = NextLocation(li)
    /\ pc' = "loop"
    /\ UNCHANGED <<parseVars, credentials, job_candidates, results, queries,
                   resp, collected, seen, accepted, issued, slept, errors,
                   returned>>

\* Lines 188-192.
AuthFailure ==
    /\ pc = "respond"
    /\ resp.kind = "http"
    /\ resp.status # 200
    /\ IsAuthFailure(resp.status)
    /\ errors' = Append(errors, AuthError)
    /\ returned' = <<>>
    /\ pc' = "done"
    /\ UNCHANGED <<parseVars, credentials, job_candidates, results, queries,
                   qi, li, resp, collected, seen, accepted, issued, slept>>

\* Lines 188-193: another status than 200.
OtherStatus ==
    /\ pc = "respond"
    /\ resp.kind = "http"
    /\ resp.status # 200
    /\ ~IsAuthFailure(resp.status)
    /\ qi' = NextQuery(qi, li)
    /\ li' = NextLocation(li)
    /\ pc' = "loop"
    /\ UNCHANGED <<parseVars, credentials, job_candidates, results, queries,
                   resp, collected, seen, accepted, issued, slept, errors,
                   returned>>

\* Lines 195-198: resp.json() raises.
BadBody ==
    /\ pc = "respond"
    /\ resp.kind = "http"
    /\ resp.status = 200
    /\ ~resp.parsable
    /\ qi' = NextQuery(qi, li)
    /\ li' = NextLocation(li)
    /\ pc' = "loop"
    /\ UNCHANGED <<parseVars, credentials, job_candidates, results, queries,
                   resp, collected, seen, accepted, issued, slept, errors,
                   returned>>

\* Lines 195-216: the results are collected, then time.sleep(0.25).
Results ==
    /\ pc = "respond"
    /\ resp.kind = "http"
    /\ resp.status = 200
    /\ resp.parsable
    /\ LET got == CollectFrom(resp.results, 1, collected, seen, accepted, results)
       IN  /\ collected' = got[1]
           /\ seen' = got[2]
           /\ accepted' = got[3]
    /\ slept' = TRUE
    /\ qi' = NextQuery(qi, li)
    /\ li' = NextLocation(li)
    /\ pc' = "loop"
    /\ UNCHANGED <<parseVars, credentials, job_candidates, results, queries,
                   resp, issued, errors, returned>>

\* Lines 167-168 and 218: the loop ends, by its break or by exhaustion.
Return ==
    /\ pc = "loop"
    /\ (qi > Len(queries) \/ Full(collected, results))
    /\ returned' = Truncate(collected, results)
    /\ pc' = "done"
    /\ UNCHANGED <<parseVars, credentials, job_candidates, results, queries,
                   qi, li, resp, collected, seen, accepted, issued, slept,
                   errors>>

FetchNext ==
    \/ MissingKeys
    \/ Begin
    \/ Request
    \/ TransportFailure
    \/ AuthFailure
    \/ OtherStatus
    \/ BadBody
    \/ Results
    \/ Return

FetchSpec == FetchInit /\ [][FetchNext]_vars

\* ---------------------------------------------------------------------
\* Properties of parse_analysis_to_candidates (under ParseSpec)
\* ---------------------------------------------------------------------

\* The first n elements of ws, or all of them when there are fewer.
Prefix(ws, n) == SubSeq(ws, 1, IF Len(ws) < n THEN Len(ws) ELSE n)

\* No line of the text is a titles heading or a skills heading.
NoHeading ==
    \A k \in 1..Len(lines) :
        ~IsTitlesHeading(lines[k]) /\ ~IsSkillsHeading(lines[k])

\* C1, as stated: the list returned has between 1 and 12 elements.
C1_LengthOneToTwelve ==
    pc = "parsed" => (1 <= Len(cleaned) /\ Len(cleaned) <= 12)

\* C1, amended: the list returned holds no more elements than fragments were
\* gathered, each of 2 to 80 characters, and it is empty exactly when no
\* gathered fragment has 2 to 80 characters.
C1_LengthByFragments ==
    pc = "parsed" =>
        /\ Len(cleaned) <= Len(candidates)
        /\ \A k \in 1..Len(cleaned) :
               2 <= Len(cleaned[k]) /\ Len(cleaned[k]) <= 80
        /\ (cleaned = <<>>) <=>
               ~\E k \in 1..Len(candidates) :
                   2 <= Len(candidates[k]) /\ Len(candidates[k]) <= 80

\* A text whose list is longer than 12 has been parsed.
C1_Witness == pc = "parsed" /\ Len(cleaned) > 12

\* C2, as stated: a text holding the line "Suggested job titles: Backend
\* Developer, Data Engineer" gives a list that starts with "Backend
\* Developer", "Data Engineer".
C2_TitlesLineAnywhere ==
    (pc = "parsed" /\ \E k \in 1..Len(lines) : lines[k] = LineTitles) =>
        /\ Len(cleaned) >= 2
        /\ cleaned[1] = BackendDeveloper
        /\ cleaned[2] = DataEngineer

\* C2, amended: the same, when no earlier line of the text contains
\* "suggested job titles" in any letter case.
C2_TitlesLineFirstHeading ==
    (/\ pc = "parsed"
     /\ \E k \in 1..Len(lines) :
            /\ lines[k] = LineTitles
            /\ \A m \in 1..(k - 1) : ~Contains(Lower(lines[m]), TitlesPhrase))
    =>
        /\ Len(cleaned) >= 2
        /\ cleaned[1] = BackendDeveloper
        /\ cleaned[2] = DataEngineer

\* The line stood second of three, after a line that is no titles heading,
\* and the text has been parsed.
C2_Witness ==
    /\ pc = "parsed"
    /\ Len(lines) = 3
    /\ lines[2] = LineTitles
    /\ ~Contains(Lower(lines[1]), TitlesPhrase)
    /\ Len(cleaned) > 2

\* C3, as stated: without a heading the list is exactly the first six words
\* of the text joined by single blanks.
C3_FallbackAlwaysOne ==
    (pc = "parsed" /\ NoHeading) =>
        cleaned = <<JoinSpace(Prefix(Words(analysis_text), 6))>>

\* C3, amended: without a heading the list is the first six words of the
\* text joined by single blanks when that string has 2 to 80 characters, and
\* is empty otherwise.
C3_FallbackWhenReasonable ==
    (pc = "parsed" /\ NoHeading) =>
        LET first == JoinSpace(Prefix(Words(analysis_text), 6))
        IN  cleaned = IF 2 <= Len(first) /\ Len(first) <= 80
                      THEN <<first>>
                      ELSE <<>>

\* A text of more than six words without a heading has been parsed into one
\* candidate.
C3_Witness ==
    /\ pc = "parsed"
    /\ NoHeading
    /\ Len(Words(analysis_text)) > 6
    /\ Len(cleaned) = 1

\* The least index of ws holding w.
FirstIndex(ws, w) ==
    CHOOSE k \in 1..Len(ws) : ws[k] = w /\ \A m \in 1..(k - 1) : ws[m] # w

\* C4: no two elements of the list returned are equal when lower-cased; each
\* is the first raw candidate of its lower-cased form, and the elements
\* stand in the order of these first occurrences.
C4_CaseInsensitiveUnique ==
    pc = "parsed" =>
        LET raw == [k \in 1..Len(candidates) |-> Lower(candidates[k])]
            kept == [k \in 1..Len(cleaned) |-> Lower(cleaned[k])]
        IN  /\ \A i, j \in 1..Len(kept) : i < j => kept[i] # kept[j]
            /\ \A i \in 1..Len(kept) :
                   /\ \E k \in 1..Len(raw) : raw[k] = kept[i]
                   /\ cleaned[i] = candidates[FirstIndex(raw, kept[i])]
            /\ \A i, j \in 1..Len(kept) :
                   i < j => FirstIndex(raw, kept[i]) < FirstIndex(raw, kept[j])

\* Two raw candidates differed in letter case only, and the text has been
\* parsed.
C4_Witness ==
    /\ pc = "parsed"
    /\ \E i, j \in 1..Len(candidates) :
           /\ i < j
           /\ candidates[i] # candidates[j]
           /\ Lower(candidates[i]) = Lower(candidates[j])
           /\ \E k \in 1..Len(cleaned) : cleaned[k] = candidates[i]

\* ---------------------------------------------------------------------
\* Properties of fetch_real_jobs (under FetchSpec)
\* ---------------------------------------------------------------------

\* The queries of the run as the contract lists them: the non-empty
\* candidates, then the priority roles, then the generic titles.
ContractQueries ==
    SelectSeq(job_candidates, LAMBDA q : q # "") \o PriorityRoles \o FallbackTitles

\* |queries| x |locations|
PairCount == Len(ContractQueries) * Len(Locations)

\* C5: a request is issued only while fewer than results postings are
\* collected, and the requests issued never number more than
\* |queries| x |locations|.
C5_RequestBudget ==
    [][issued' # issued =>
          /\ Len(collected) < results
          /\ Len(issued') <= PairCount]_vars

\* The run returned results = 2 postings and stopped before the pairs were
\* exhausted.
C5_Witness ==
    /\ pc = "done"
    /\ results = 2
    /\ Len(returned) = 2
    /\ Len(issued) >= 2
    /\ Len(issued) < PairCount

\* C6: the collected postings come from jobs of pairwise different
\* identity: no two with the same id, and no two without an id with the
\* same title and company; the list returned is a prefix of them.
C6_OneEntryPerIdentity ==
    /\ Len(collected) = Len(accepted)
    /\ \A k \in 1..Len(accepted) : collected[k].title = accepted[k].title
    /\ \A i, j \in 1..Len(accepted) :
           i < j =>
               /\ ~(accepted[i].id # Absent /\ accepted[i].id = accepted[j].id)
               /\ ~(/\ accepted[i].id = Absent
                    /\ accepted[j].id = Absent
                    /\ accepted[i].title = accepted[j].title
                    /\ accepted[i].company = accepted[j].company)
    /\ pc = "done" =>
           /\ Len(returned) <= Len(collected)
           /\ \A k \in 1..Len(returned) : returned[k] = collected[k]

\* A later request returned the listing of an earlier posting under another
\* title, and one posting is collected.
C6_Witness ==
    /\ pc = "loop"
    /\ resp.kind = "http"
    /\ resp.parsable
    /\ resp.results = <<JobBackendSenior>>
    /\ accepted = <<JobBackend>>
    /\ Len(collected) = 1
    /\ results = 2

\* C7: a response with status 401 or 403 ends the run at once: no request
\* follows, the authentication error is shown and the empty list is
\* returned.
C7_AuthFailureAborts ==
    [][/\ (pc = "respond" /\ resp.kind = "http" /\ resp.status \in {401, 403}) =>
              /\ pc' = "done"
              /\ returned' = <<>>
              /\ issued' = issued
              /\ errors' = Append(errors, "Adzuna authentication error")
       /\ pc = "done" => (issued' = issued /\ returned' = returned)]_vars

\* The run ended on a 401 or 403 with postings already collected.
C7_Witness ==
    /\ pc = "done"
    /\ resp.kind = "http"
    /\ resp.status \in {401, 403}
    /\ collected # <<>>
    /\ returned = <<>>
    /\ Len(errors) = 1

\* C8: the k-th request of a run is for the k-th pair of the contract's
\* queries and the locations, the locations running fastest.
C8_RequestOrder ==
    \A k \in 1..Len(issued) :
        /\ k <= PairCount
        /\ issued[k].what = ContractQueries[((k - 1) \div 8) + 1]
        /\ issued[k].where = Locations[((k - 1) % 8) + 1]

\* A run with candidates requested every pair.
C8_Witness ==
    /\ pc = "done"
    /\ job_candidates # <<>>
    /\ Len(issued) = PairCount

\* C9: a request that follows another is issued after time.sleep ran.
C9_PacedBetweenRequests ==
    [][(issued' # issued /\ issued # <<>>) => slept]_vars

\* C10: handling a raised requests.get changes no posting and no message,
\* issues nothing, and leaves the loops on the pair after the failed one;
\* and every request is for the pair the loops are on.
C10_TransportFailureSkips ==
    [][/\ (pc = "respond" /\ resp.kind = "raised") =>
              /\ collected' = collected
              /\ accepted' = accepted
              /\ errors' = errors
              /\ returned' = returned
              /\ issued' = issued
              /\ pc' = "loop"
              /\ ((qi' - 1) * 8) + li' = Len(issued) + 1
       /\ issued' # issued =>
              /\ Len(issued') = Len(issued) + 1
              /\ issued'[Len(issued')].what = queries[qi]
              /\ issued'[Len(issued')].where = Locations[li]]_vars

\* A raised requests.get was handled with postings collected: they are
\* kept, and the loops stand on the first location of the second query.
C10_Witness ==
    /\ pc = "loop"
    /\ resp.kind = "raised"
    /\ collected # <<>>
    /\ Len(collected) < results
    /\ Len(issued) = 8
    /\ qi = 2
    /\ li = 1

====
